---- MODULE Spec2Model ----
(***************************************************************************)
(* Model of "3D Z-value Subgroup Visualization (python).py":               *)
(* configuration selection (get_axis_config), colour assignment            *)
(* (get_group1_index, get_color) and the plotting run (plot_3d_hts with    *)
(* load_all_sheets and avg_data).                                          *)
(*                                                                         *)
(* Python strings whose characters matter (antibiotic codes, sheet names)  *)
(* are tuples of one-character strings.  Python floats are exact           *)
(* rationals [nan, n, d] with d > 0, kept in lowest terms.                 *)
(***************************************************************************)
EXTENDS Integers, Sequences, FiniteSets, TLC

VARIABLES
    pc,          \* position of the running call
    strain,      \* argument `strain`
    antibiotic,  \* argument `antibiotic`
    cfg,         \* record returned by get_axis_config / passed to get_color
    error,       \* exception that ended the call, "none" when there is none
    z_in,        \* argument `z` of a direct get_color call
    max_in,      \* argument `actual_max` of a direct get_color call
    ret,         \* outcome of a direct get_color call
    workbook,    \* sheets of the Excel file at file_path read so far
    opened,      \* number of times the workbook was opened
    dfs,         \* the list dfs of load_all_sheets
    df_all,      \* rows returned by load_all_sheets
    df_avg,      \* rows returned by avg_data
    max_z,       \* max_z of the raw pass
    max_avg,     \* max_avg of the averaged pass
    calls,       \* get_color calls made by the run
    traces,      \* traces added to the figure, in order
    written      \* number of times the output HTML was written

vars == <<pc, strain, antibiotic, cfg, error, z_in, max_in, ret, workbook,
          opened, dfs, df_all, df_avg, max_z, max_avg, calls, traces, written>>

-----------------------------------------------------------------------------
(* Characters: the ASCII range 48 (digit 0) .. 122 (letter z); codes 92    *)
(* and 96 are spelled out.                                                 *)

ASCII ==
    << "0","1","2","3","4","5","6","7","8","9",":",";","<","=",">","?","@",
       "A","B","C","D","E","F","G","H","I","J","K","L","M","N","O","P","Q",
       "R","S","T","U","V","W","X","Y","Z","[","BACKSLASH","]","^","_","BACKTICK",
       "a","b","c","d","e","f","g","h","i","j","k","l","m","n","o","p","q",
       "r","s","t","u","v","w","x","y","z" >>

Ord(c) == 47 + (CHOOSE i \in 1..Len(ASCII) : ASCII[i] = c)

Chr(k) == ASCII[k - 47]

\* str.lower() on one character: codes 65..90 (A..Z) move up by 32.
LowerChar(c) == IF Ord(c) >= 65 /\ Ord(c) <= 90 THEN Chr(Ord(c) + 32) ELSE c

\* str.lower()
lower(s) == [i \in 1..Len(s) |-> LowerChar(s[i])]

\* `sub in s`
Contains(s, sub) ==
    \E i \in 0..(Len(s) - Len(sub)) : SubSeq(s, i + 1, i + Len(sub)) = sub

\* s.endswith(suffix)
EndsWith(s, suffix) ==
    /\ Len(s) >= Len(suffix)
    /\ SubSeq(s, Len(s) - Len(suffix) + 1, Len(s)) = suffix

\* s < t for Python strings (lexicographic by code point)
RECURSIVE StrLess(_, _)
StrLess(s, t) ==
    IF t = <<>> THEN FALSE
    ELSE IF s = <<>> THEN TRUE
    ELSE IF Ord(Head(s)) # Ord(Head(t)) THEN Ord(Head(s)) < Ord(Head(t))
    ELSE StrLess(Tail(s), Tail(t))

-----------------------------------------------------------------------------
(* Floats.                                                                 *)

Abs(i) == IF i < 0 THEN -i ELSE i

RECURSIVE GCD(_, _)
GCD(a, b) == IF b = 0 THEN a ELSE GCD(b, a % b)

\* the float n/d, d > 0
Frac(n, d) ==
    LET g == GCD(Abs(n), d)
    IN  [nan |-> FALSE, n |-> n \div g, d |-> d \div g]

Num(i) == [nan |-> FALSE, n |-> i, d |-> 1]

NaN == [nan |-> TRUE, n |-> 0, d |-> 1]

\* a <= b, a < b, a == b: every comparison with NaN is False
Leq(a, b) == ~a.nan /\ ~b.nan /\ a.n * b.d <= b.n * a.d
Less(a, b) == ~a.nan /\ ~b.nan /\ a.n * b.d < b.n * a.d
Eq(a, b) == ~a.nan /\ ~b.nan /\ a.n * b.d = b.n * a.d

\* a - b, a / b (b > 0), a + b
Sub(a, b) == Frac(a.n * b.d - b.n * a.d, a.d * b.d)
Div(a, b) == Frac(a.n * b.d, a.d * b.n)
Add(a, b) == Frac(a.n * b.d + b.n * a.d, a.d * b.d)

\* int(a // k) for a float a and a positive int k: floor of the quotient
FloorDiv(a, k) == a.n \div (a.d * k)

-----------------------------------------------------------------------------
(* 1. ANTIBIOTIC GROUP MAPPING                                             *)

ANTIBIOTIC_GROUP_all ==
    (<<"a","m","k">> :> "all") @@ (<<"c","a","z">> :> "beta")

ANTIBIOTIC_GROUP ==
    (<<"a","m","k">> :> "non_beta") @@ (<<"g","e","n">> :> "non_beta") @@
    (<<"t","g","c">> :> "non_beta") @@ (<<"t","e","t">> :> "non_beta") @@
    (<<"l","v","x">> :> "non_beta") @@ (<<"c","i","p">> :> "non_beta") @@
    (<<"r","i","f">> :> "non_beta") @@ (<<"c","s","t">> :> "non_beta") @@
    (<<"p","m","b">> :> "non_beta") @@ (<<"v","a","n">> :> "non_beta") @@
    (<<"c","a","z">> :> "beta") @@
    (<<"a","z","e","t","r","e","o","n","a","m">> :> "beta") @@
    (<<"m","e","r","o","p","e","n","e","m">> :> "beta") @@
    (<<"f","d","c">> :> "beta") @@
    (<<"c","h","i","r">> :> "non_beta") @@ (<<"p","f">> :> "non_beta") @@
    (<<"d","o","x">> :> "non_beta") @@
    (<<"c","a","z","_","p">> :> "beta") @@
    (<<"a","z","e","t","r","e","o","n","a","m","_","p">> :> "beta") @@
    (<<"m","e","r","o","p","e","n","e","m","_","p">> :> "beta")

-----------------------------------------------------------------------------
(* 2. CONFIG (strain x antibiotic group)                                   *)

CONFIG ==
    [ AB_single |->
        [ non_beta |-> [z_lim |-> 95, index_mode |-> "ab", bin_size |-> 10,
                        axis_xy |-> 180, axis_z |-> 180,
                        tick_xy |-> 20, tick_z |-> 20],
          beta     |-> [z_lim |-> 95, index_mode |-> "ab", bin_size |-> 10,
                        axis_xy |-> 180, axis_z |-> 200,
                        tick_xy |-> 20, tick_z |-> 20] ],
      AB_combi |->
        [ all      |-> [z_lim |-> 95, index_mode |-> "ab", bin_size |-> 10,
                        axis_xy |-> 180, axis_z |-> 180,
                        tick_xy |-> 20, tick_z |-> 20] ],
      PAO1 |->
        [ non_beta |-> [z_lim |-> 160, index_mode |-> "pa", bin_size |-> 20,
                        axis_xy |-> 180, axis_z |-> 180,
                        tick_xy |-> 20, tick_z |-> 20],
          beta     |-> [z_lim |-> 160, index_mode |-> "pa", bin_size |-> 20,
                        axis_xy |-> 180, axis_z |-> 600,
                        tick_xy |-> 20, tick_z |-> 100] ],
      SA |->
        [ all      |-> [z_lim |-> 160, index_mode |-> "sa", bin_size |-> 10,
                        axis_xy |-> 180, axis_z |-> 180,
                        tick_xy |-> 20, tick_z |-> 20] ] ]

\* the value of `cfg` while no record is bound to it
NoCfg == [z_lim |-> 0, index_mode |-> "", bin_size |-> 0,
          axis_xy |-> 0, axis_z |-> 0, tick_xy |-> 0, tick_z |-> 0]

-----------------------------------------------------------------------------
(* 3. CONFIG SELECTION                                                     *)

\* ANTIBIOTIC_GROUP.get(antibiotic, "non_beta")
GroupOf(code) ==
    IF code \in DOMAIN ANTIBIOTIC_GROUP THEN ANTIBIOTIC_GROUP[code]
    ELSE "non_beta"

get_axis_config_nolower(s, a) ==
    LET group == GroupOf(a)
    IN  IF s \notin DOMAIN CONFIG THEN [err |-> "KeyError", cfg |-> NoCfg]
        ELSE IF group \in DOMAIN CONFIG[s]
             THEN [err |-> "none", cfg |-> CONFIG[s][group]]
        ELSE IF "all" \in DOMAIN CONFIG[s]
             THEN [err |-> "none", cfg |-> CONFIG[s]["all"]]
        ELSE [err |-> "ValueError", cfg |-> NoCfg]

\* get_axis_config(strain, antibiotic): the record returned, or the
\* exception raised (KeyError from CONFIG[strain], ValueError from raise).
get_axis_config(s, a) ==
    LET group == GroupOf(lower(a))
    IN  IF s \notin DOMAIN CONFIG THEN [err |-> "KeyError", cfg |-> NoCfg]
        ELSE IF group \in DOMAIN CONFIG[s]
             THEN [err |-> "none", cfg |-> CONFIG[s][group]]
        ELSE IF "all" \in DOMAIN CONFIG[s]
             THEN [err |-> "none", cfg |-> CONFIG[s]["all"]]
        ELSE [err |-> "ValueError", cfg |-> NoCfg]

-----------------------------------------------------------------------------
(* 5. COLOR HANDLING                                                       *)

get_group1_index_no_offset(z, mode, bin_size) ==
    IF mode = "ab" THEN FloorDiv(z, bin_size)
    ELSE IF mode = "sa" THEN FloorDiv(z, bin_size)
    ELSE IF mode = "pa" THEN FloorDiv(z, bin_size)
    ELSE 0

\* get_group1_index(z, mode, bin_size)
get_group1_index(z, mode, bin_size) ==
    IF mode = "ab" THEN FloorDiv(Sub(z, Num(12)), bin_size)
    ELSE IF mode = "sa" THEN FloorDiv(z, bin_size)
    ELSE IF mode = "pa" THEN FloorDiv(z, bin_size)
    ELSE 0

\* group1_palette, indexed from 0 as in the source
group1_palette ==
    [i \in 0..7 |->
        << "grey", "grey", "#9D3CFF", "#00A0FF",
           "#009300", "#E6DC32", "#F08228", "red" >>[i + 1]]

\* len(group1_palette)
PaletteLen == Cardinality(DOMAIN group1_palette)

Max2(a, b) == IF a >= b THEN a ELSE b
Min2(a, b) == IF a <= b THEN a ELSE b

\* number of entries of the lookup table of cmap2 (from_list's default N)
LutSize == 256

Normalize_from_zero(vmin, vmax, value) ==
    IF vmax.nan \/ value.nan THEN [err |-> "none", val |-> NaN]
    ELSE IF Less(vmax, Num(0)) THEN [err |-> "ValueError", val |-> NaN]
    ELSE IF Eq(vmax, Num(0)) THEN [err |-> "none", val |-> Num(0)]
    ELSE [err |-> "none", val |-> Div(value, vmax)]

\* mcolors.Normalize(vmin=vmin, vmax=vmax)(value), clip off: 0 when
\* vmin == vmax, ValueError when vmin > vmax, else the linear map.
Normalize(vmin, vmax, value) ==
    IF vmax.nan \/ value.nan THEN [err |-> "none", val |-> NaN]
    ELSE IF Eq(vmin, vmax) THEN [err |-> "none", val |-> Num(0)]
    ELSE IF Less(vmax, vmin) THEN [err |-> "ValueError", val |-> NaN]
    ELSE [err |-> "none", val |-> Div(Sub(value, vmin), Sub(vmax, vmin))]

\* cmap(x) followed by mcolors.to_hex: the colour is the entry of cmap2's
\* lookup table the fraction x selects (under and over take the two ends,
\* NaN the bad colour).
cmap(x) ==
    IF x.nan THEN [from |-> "cmap2", at |-> -1, name |-> "bad"]
    ELSE IF Less(x, Num(0)) THEN [from |-> "cmap2", at |-> 0, name |-> "under"]
    ELSE IF Less(Num(1), x)
         THEN [from |-> "cmap2", at |-> LutSize - 1, name |-> "over"]
    ELSE IF Eq(x, Num(1))
         THEN [from |-> "cmap2", at |-> LutSize - 1, name |-> "lut"]
    ELSE [from |-> "cmap2", at |-> (x.n * LutSize) \div x.d, name |-> "lut"]

NoColor == [from |-> "", at |-> -1, name |-> ""]

\* the value of `ret` before get_color has returned
NoRet == [branch |-> "", idx |-> -1, norm |-> NaN, color |-> NoColor,
          err |-> "none"]

get_color_strict(z, c, actual_max) ==
    IF Less(z, Num(c.z_lim))
    THEN LET idx == Max2(0, Min2(get_group1_index(z, c.index_mode, c.bin_size),
                                 PaletteLen - 1))
         IN  [branch |-> "group1", idx |-> idx, norm |-> NaN,
              color |-> [from |-> "group1_palette", at |-> idx,
                         name |-> group1_palette[idx]],
              err |-> "none"]
    ELSE LET norm == Normalize(Num(c.z_lim), actual_max, z)
         IN  [branch |-> "group2", idx |-> -1, norm |-> norm.val,
              color |-> IF norm.err = "none" THEN cmap(norm.val) ELSE NoColor,
              err |-> norm.err]

\* get_color(z, cfg, actual_max): the branch taken, the palette index or
\* the normalized fraction, the colour returned and the exception raised.
get_color(z, c, actual_max) ==
    IF Leq(z, Num(c.z_lim))
    THEN LET idx == Max2(0, Min2(get_group1_index(z, c.index_mode, c.bin_size),
                                 PaletteLen - 1))
         IN  [branch |-> "group1", idx |-> idx, norm |-> NaN,
              color |-> [from |-> "group1_palette", at |-> idx,
                         name |-> group1_palette[idx]],
              err |-> "none"]
    ELSE LET norm == Normalize(Num(c.z_lim), actual_max, z)
         IN  [branch |-> "group2", idx |-> -1, norm |-> norm.val,
              color |-> IF norm.err = "none" THEN cmap(norm.val) ELSE NoColor,
              err |-> norm.err]

-----------------------------------------------------------------------------
(* 4. DATA LOADING                                                         *)
(* A sheet is [name, columns, rows]: each row maps the sheet's columns to  *)
(* the cell as read_excel (with na_values) and to_numeric(errors='coerce') *)
(* leave it, a float or NaN.                                               *)

Cols == {"X value", "Y value", "Z value"}

\* "_IC50" in sheet / sheet.endswith("_MIC") / "_9xMIC" in sheet; "" stands
\* for `continue`
ShapeGroup(sheet) ==
    IF Contains(sheet, <<"_","I","C","5","0">>) THEN "IC50"
    ELSE IF EndsWith(sheet, <<"_","M","I","C">>) THEN "MIC"
    ELSE IF Contains(sheet, <<"_","9","x","M","I","C">>) THEN "9xMIC"
    ELSE ""

\* df2 of one sheet: the three columns, sheet_name, shape_group, then dropna
SheetFrame(sh, sg) ==
    LET labelled == [i \in 1..Len(sh.rows) |->
                        [c \in Cols |-> sh.rows[i][c]]
                        @@ ("sheet_name" :> sh.name) @@ ("shape_group" :> sg)]
        complete(r) == \A c \in Cols : ~r[c].nan
    IN  SelectSeq(labelled, complete)

\* one iteration of the loop of load_all_sheets: the list dfs after it, or
\* the KeyError of df[['X value', 'Y value', 'Z value']]
ReadOne(sh, frames) ==
    LET sg == ShapeGroup(sh.name)
    IN  IF sg = "" THEN [err |-> "none", dfs |-> frames]
        ELSE IF ~(Cols \subseteq sh.columns)
             THEN [err |-> "KeyError: columns", dfs |-> frames]
        ELSE [err |-> "none", dfs |-> Append(frames, SheetFrame(sh, sg))]

\* the loop of load_all_sheets over the sheets still to read
RECURSIVE ReadSheets(_, _)
ReadSheets(sheets, frames) ==
    IF sheets = <<>> THEN [err |-> "none", dfs |-> frames]
    ELSE LET r == ReadOne(Head(sheets), frames)
         IN  IF r.err # "none" THEN r ELSE ReadSheets(Tail(sheets), r.dfs)

RECURSIVE Concat(_)
Concat(frames) ==
    IF frames = <<>> THEN <<>> ELSE Head(frames) \o Concat(Tail(frames))

\* pd.concat(dfs, ignore_index=True): ValueError on an empty list; any
\* non-empty list is concatenated, empty frames included
pd_concat(frames) ==
    IF frames = <<>>
    THEN [err |-> "ValueError: No objects to concatenate", df |-> <<>>]
    ELSE [err |-> "none", df |-> Concat(frames)]

\* load_all_sheets(file_path) on a workbook with the given sheets
load_all_sheets(sheets) ==
    LET read == ReadSheets(sheets, <<>>)
    IN  IF read.err # "none" THEN [err |-> read.err, df |-> <<>>]
        ELSE pd_concat(read.dfs)

RECURSIVE Sum(_)
Sum(vals) == IF vals = <<>> THEN Num(0) ELSE Add(Head(vals), Sum(Tail(vals)))

\* Series.mean() of a non-empty column
Mean(vals) == LET t == Sum(vals) IN Frac(t.n, t.d * Len(vals))

\* Series.max(): NaN for an empty column
RECURSIVE MaxOf(_)
MaxOf(vals) ==
    IF vals = <<>> THEN NaN
    ELSE IF Len(vals) = 1 THEN Head(vals)
    ELSE LET m == MaxOf(Tail(vals))
         IN  IF Less(m, Head(vals)) THEN Head(vals) ELSE m

\* df[col] as a sequence
Column(df, col) == [i \in 1..Len(df) |-> df[i][col]]

\* Series.unique(): the values in order of first appearance
RECURSIVE Unique(_)
Unique(vals) ==
    IF vals = <<>> THEN <<>>
    ELSE LET init == Unique(SubSeq(vals, 1, Len(vals) - 1))
             last == vals[Len(vals)]
         IN  IF \E i \in 1..Len(init) : init[i] = last THEN init
             ELSE Append(init, last)

\* the sheet names of a set in ascending order (groupby sorts its keys)
RECURSIVE SortNames(_)
SortNames(S) ==
    IF S = {} THEN <<>>
    ELSE LET m == CHOOSE x \in S : \A y \in S \ {x} : StrLess(x, y)
         IN  <<m>> \o SortNames(S \ {m})

\* avg_data(df): one row per (sheet_name, shape_group), in key order; the
\* shape_group is a function of the sheet_name, so the sheet_name orders
\* the keys
avg_data(df) ==
    LET names == SortNames({df[i]["sheet_name"] : i \in 1..Len(df)})
        group(nm) == SelectSeq(df, LAMBDA r : r["sheet_name"] = nm)
    IN  [k \in 1..Len(names) |->
            LET g == group(names[k])
            IN  [sheet_name |-> names[k],
                 shape_group |-> g[1]["shape_group"],
                 X |-> Mean(Column(g, "X value")),
                 Y |-> Mean(Column(g, "Y value")),
                 Z |-> Mean(Column(g, "Z value"))]]

-----------------------------------------------------------------------------
(* The workbooks read by the runs.                                         *)

\* sheets per workbook, and rows per workbook
MaxSheets == 2
MaxRows == 3

SheetNames ==
    { <<"a","_","I","C","5","0">>, <<"a","_","M","I","C">>,
      <<"a","_","9","x","M","I","C">>, <<"a","_","M","I","C","_","r","a","w">> }

Row(x, y, z) == ("X value" :> x) @@ ("Y value" :> y) @@ ("Z value" :> z)

\* rows as read: two complete rows and one with a missing coordinate
RowInputs ==
    { Row(Num(10), Num(20), Num(90)), Row(Num(30), Num(40), Num(200)),
      Row(Num(10), NaN, Num(200)) }

RECURSIVE RowCount(_)
RowCount(w) == IF w = <<>> THEN 0 ELSE Len(Head(w).rows) + RowCount(Tail(w))

\* the sheets that can follow the sheets w: a name not in w (sheet names are
\* unique in a workbook), and either all three columns and rows within
\* MaxRows, or no `Z value` column (taken without rows)
SheetInputs(w) ==
    LET names == SheetNames \ {w[i].name : i \in 1..Len(w)}
        rowSeqs == UNION {[1..k -> RowInputs] : k \in 0..(MaxRows - RowCount(w))}
    IN  {[name |-> nm, columns |-> Cols, rows |-> rs] :
            nm \in names, rs \in rowSeqs}
        \cup {[name |-> nm, columns |-> Cols \ {"Z value"}, rows |-> <<>>] :
                nm \in names}

-----------------------------------------------------------------------------
(* 6. MAIN PLOTTING FUNCTION                                               *)

\* cfg = get_axis_config(strain, antibiotic), with a default record for an
\* unknown strain instead of the KeyError
ResolveConfig_default ==
    /\ pc = "plot_3d_hts"
    /\ LET r == get_axis_config(strain, antibiotic)
       IN  IF r.err = "KeyError"
           THEN /\ cfg' = CONFIG["AB_single"]["non_beta"]
                /\ error' = "none"
                /\ pc' = "load_all_sheets"
           ELSE IF r.err # "none"
           THEN /\ cfg' = cfg
                /\ error' = r.err
                /\ pc' = "failed"
           ELSE /\ cfg' = r.cfg
                /\ error' = "none"
                /\ pc' = "load_all_sheets"
    /\ UNCHANGED <<strain, antibiotic, z_in, max_in, ret, workbook, opened, dfs,
                   df_all, df_avg, max_z, max_avg, calls, traces, written>>

\* cfg = get_axis_config(strain, antibiotic), and the axis settings read
\* from it
ResolveConfig ==
    /\ pc = "plot_3d_hts"
    /\ LET r == get_axis_config(strain, antibiotic)
       IN  IF r.err # "none"
           THEN /\ cfg' = cfg
                /\ error' = r.err
                /\ pc' = "failed"
           ELSE /\ cfg' = r.cfg
                /\ error' = "none"
                /\ pc' = "load_all_sheets"
    /\ UNCHANGED <<strain, antibiotic, z_in, max_in, ret, workbook, opened, dfs,
                   df_all, df_avg, max_z, max_avg, calls, traces, written>>

\* xls = pd.ExcelFile(file_path); dfs = []
OpenWorkbook ==
    /\ pc = "load_all_sheets"
    /\ opened' = opened + 1
    /\ dfs' = <<>>
    /\ pc' = "read sheets"
    /\ UNCHANGED <<strain, antibiotic, cfg, error, z_in, max_in, ret, workbook,
                   df_all, df_avg, max_z, max_avg, calls, traces, written>>

\* one iteration of `for sheet in xls.sheet_names`, on a next sheet of the
\* workbook with a name not read yet
ReadSheet ==
    /\ pc = "read sheets"
    /\ Len(workbook) < MaxSheets
    /\ \E sh \in SheetInputs(workbook) :
           LET r == ReadOne(sh, dfs)
           IN  /\ workbook' = Append(workbook, sh)
               /\ dfs' = r.dfs
               /\ error' = r.err
               /\ pc' = IF r.err = "none" THEN "read sheets" ELSE "failed"
    /\ UNCHANGED <<strain, antibiotic, cfg, z_in, max_in, ret, opened,
                   df_all, df_avg, max_z, max_avg, calls, traces, written>>

\* return pd.concat(dfs, ignore_index=True), after the last sheet
ConcatFrames ==
    /\ pc = "read sheets"
    /\ Len(workbook) >= 1
    /\ LET r == pd_concat(dfs)
       IN  /\ df_all' = r.df
           /\ error' = r.err
           /\ pc' = IF r.err = "none" THEN "avg_data" ELSE "failed"
    /\ UNCHANGED <<strain, antibiotic, cfg, z_in, max_in, ret, workbook, opened,
                   dfs, df_avg, max_z, max_avg, calls, traces, written>>

\* df_avg = avg_data(df_all)
AvgData ==
    /\ pc = "avg_data"
    /\ df_avg' = avg_data(df_all)
    /\ pc' = "raw points"
    /\ UNCHANGED <<strain, antibiotic, cfg, error, z_in, max_in, ret, workbook,
                   opened, dfs, df_all, max_z, max_avg, calls, traces, written>>

\* the get_color calls of one pass over the values zs with maximum mx
ColorCalls(pass, zs, mx) ==
    {[pass |-> pass, z |-> zs[i], actual_max |-> mx,
      ret |-> get_color(zs[i], cfg, mx)] : i \in 1..Len(zs)}

\* the exception of the first call of a pass that raises, "none" otherwise
PassError(zs, mx) ==
    IF \E i \in 1..Len(zs) : get_color(zs[i], cfg, mx).err # "none"
    THEN get_color(
             zs[CHOOSE i \in 1..Len(zs) :
                    /\ get_color(zs[i], cfg, mx).err # "none"
                    /\ \A j \in 1..(i - 1) : get_color(zs[j], cfg, mx).err = "none"],
             cfg, mx).err
    ELSE "none"

\* RAW points: one trace per shape_group of df_all, coloured against max_z
RawPoints ==
    /\ pc = "raw points"
    /\ LET zs == Column(df_all, "Z value")
           mx == MaxOf(zs)
           groups == Unique(Column(df_all, "shape_group"))
           e == PassError(zs, mx)
       IN  /\ max_z' = mx
           /\ calls' = calls \cup ColorCalls("raw", zs, mx)
           /\ error' = e
           /\ traces' = IF e = "none"
                        THEN traces \o [k \in 1..Len(groups) |-> "raw points"]
                        ELSE traces
           /\ pc' = IF e = "none" THEN "average points" ELSE "failed"
    /\ UNCHANGED <<strain, antibiotic, cfg, z_in, max_in, ret, workbook, opened, dfs,
                   df_all, df_avg, max_avg, written>>

\* AVERAGE points coloured against max_z, the maximum of the raw pass
AveragePoints_raw_max ==
    /\ pc = "average points"
    /\ LET zs == Column(df_avg, "Z")
           mx == MaxOf(zs)
           groups == Unique(Column(df_avg, "shape_group"))
           e == PassError(zs, max_z)
       IN  /\ max_avg' = mx
           /\ calls' = calls \cup ColorCalls("avg", zs, max_z)
           /\ error' = e
           /\ traces' = IF e = "none"
                        THEN traces \o [k \in 1..Len(groups) |-> "average points"]
                        ELSE traces
           /\ pc' = IF e = "none" THEN "lines" ELSE "failed"
    /\ UNCHANGED <<strain, antibiotic, cfg, z_in, max_in, ret, workbook, opened, dfs,
                   df_all, df_avg, max_z, written>>

\* AVERAGE points: one trace per shape_group of df_avg, coloured against
\* max_avg
AveragePoints ==
    /\ pc = "average points"
    /\ LET zs == Column(df_avg, "Z")
           mx == MaxOf(zs)
           groups == Unique(Column(df_avg, "shape_group"))
           e == PassError(zs, mx)
       IN  /\ max_avg' = mx
           /\ calls' = calls \cup ColorCalls("avg", zs, mx)
           /\ error' = e
           /\ traces' = IF e = "none"
                        THEN traces \o [k \in 1..Len(groups) |-> "average points"]
                        ELSE traces
           /\ pc' = IF e = "none" THEN "lines" ELSE "failed"
    /\ UNCHANGED <<strain, antibiotic, cfg, z_in, max_in, ret, workbook, opened, dfs,
                   df_all, df_avg, max_z, written>>

\* the number of rows of df whose shape_group is in sgs
CountIn(df, sgs) ==
    Cardinality({i \in 1..Len(df) : df[i]["shape_group"] \in sgs})

\* connect_groups(group1_data, group2_data, ...): max(len, len) traces
ConnectTraces(n1, n2) == [k \in 1..Max2(n1, n2) |-> "raw connection"]

\* AVERAGE trajectory lines (IC50 -> MIC, MIC -> 9xMIC) and RAW data
\* connections (IC50 <-> MIC, MIC <-> 9xMIC)
Lines ==
    /\ pc = "lines"
    /\ LET avgIC50_MIC == CountIn(df_avg, {"IC50", "MIC"})
           avgMIC == CountIn(df_avg, {"MIC"})
           avg9xMIC == CountIn(df_avg, {"9xMIC"})
           nIC50 == CountIn(df_all, {"IC50"})
           nMIC == CountIn(df_all, {"MIC"})
           n9xMIC == CountIn(df_all, {"9xMIC"})
       IN  traces' =
               traces
               \o (IF avgIC50_MIC >= 2 THEN <<"average line">> ELSE <<>>)
               \o (IF avgMIC > 0 /\ avg9xMIC > 0 THEN <<"average line">> ELSE <<>>)
               \o (IF nIC50 > 0 /\ nMIC > 0 THEN ConnectTraces(nIC50, nMIC) ELSE <<>>)
               \o (IF nMIC > 0 /\ n9xMIC > 0 THEN ConnectTraces(nMIC, n9xMIC) ELSE <<>>)
    /\ pc' = "save"
    /\ UNCHANGED <<strain, antibiotic, cfg, error, z_in, max_in, ret, workbook,
                   opened, dfs, df_all, df_avg, max_z, max_avg, calls, written>>

\* Layout and Save: fig.write_html(out_html)
Save ==
    /\ pc = "save"
    /\ written' = written + 1
    /\ pc' = "done"
    /\ UNCHANGED <<strain, antibiotic, cfg, error, z_in, max_in, ret, workbook,
                   opened, dfs, df_all, df_avg, max_z, max_avg, calls, traces>>

-----------------------------------------------------------------------------
(* Direct calls of get_axis_config and get_color.                          *)

\* the program state outside a run of plot_3d_hts
NoRun ==
    /\ workbook = <<>>
    /\ opened = 0
    /\ dfs = <<>>
    /\ df_all = <<>>
    /\ df_avg = <<>>
    /\ max_z = NaN
    /\ max_avg = NaN
    /\ calls = {}
    /\ traces = <<>>
    /\ written = 0

runVars == <<workbook, opened, dfs, df_all, df_avg, max_z, max_avg, calls, traces,
             written>>

UpperChar(c) == IF Ord(c) >= 97 /\ Ord(c) <= 122 THEN Chr(Ord(c) - 32) ELSE c
upper(s) == [i \in 1..Len(s) |-> UpperChar(s[i])]
capitalize(s) == [i \in 1..Len(s) |-> IF i = 1 THEN UpperChar(s[i]) ELSE s[i]]

\* antibiotic strings that are no key of ANTIBIOTIC_GROUP in any letter case
UnmappedCodes ==
    { <<>>, <<"x","y","z">>, <<"X","y","Z">>, <<"a","l","l">>,
      <<"b","e","t","a">>, <<"n","o","n","_","b","e","t","a">>,
      <<"a","m","k","2">>, <<"C","A","Z","_">>, <<"A","L","L">> }

AntibioticInputs ==
    LET keys == DOMAIN ANTIBIOTIC_GROUP
    IN  keys \cup {upper(k) : k \in keys} \cup {capitalize(k) : k \in keys}
        \cup UnmappedCodes

ConfigInit ==
    /\ pc = "get_axis_config"
    /\ strain \in DOMAIN CONFIG
    /\ antibiotic \in AntibioticInputs
    /\ cfg = NoCfg
    /\ error = "none"
    /\ z_in = NaN /\ max_in = NaN /\ ret = NoRet
    /\ NoRun

CallGetAxisConfig ==
    /\ pc = "get_axis_config"
    /\ LET r == get_axis_config(strain, antibiotic)
       IN  /\ cfg' = r.cfg
           /\ error' = r.err
    /\ pc' = "get_axis_config returned"
    /\ UNCHANGED <<strain, antibiotic, z_in, max_in, ret, runVars>>

ConfigNext == CallGetAxisConfig

SpecConfig == ConfigInit /\ [][ConfigNext]_vars

\* how far below 0 and above 0 the z arguments of direct get_color calls go
ZBelow == 50
ZAbove == 210

\* z arguments: every multiple of 1/2 in [-ZBelow, ZAbove]
ZInputs == {Frac(k, 2) : k \in (0 - 2 * ZBelow)..(2 * ZAbove)}

\* actual_max arguments, on both sides of the two thresholds
MaxInputs ==
    { Num(90), Num(95), Frac(191, 2), Num(150), Num(160), Num(161),
      Num(200), Num(600) }

\* the records of CONFIG
ConfigRecords == {CONFIG[s][g] : <<s, g>> \in
                    {<<s, g>> \in (DOMAIN CONFIG) \X {"non_beta", "beta", "all"} :
                        g \in DOMAIN CONFIG[s]}}

\* a record whose index_mode is none of ab, sa, pa
OtherModeRecord ==
    [z_lim |-> 95, index_mode |-> "other", bin_size |-> 10,
     axis_xy |-> 180, axis_z |-> 180, tick_xy |-> 20, tick_z |-> 20]

ColorInit ==
    /\ pc = "get_color"
    /\ cfg \in ConfigRecords \cup {OtherModeRecord}
    /\ z_in \in ZInputs
    /\ max_in \in MaxInputs
    /\ ret = NoRet
    /\ error = "none"
    /\ strain = "" /\ antibiotic = <<>>
    /\ NoRun

CallGetColor ==
    /\ pc = "get_color"
    /\ ret' = get_color(z_in, cfg, max_in)
    /\ error' = ret'.err
    /\ pc' = "get_color returned"
    /\ UNCHANGED <<strain, antibiotic, cfg, z_in, max_in, runVars>>

ColorNext == CallGetColor

SpecColor == ColorInit /\ [][ColorNext]_vars

-----------------------------------------------------------------------------
(* Properties of get_axis_config (checked under SpecConfig).               *)

\* C1: for every strain key of CONFIG and every antibiotic string,
\* get_axis_config returns the strain's record for the group of the
\* lower-cased antibiotic (non_beta when the lower-cased code is not in
\* ANTIBIOTIC_GROUP) if the strain has one, otherwise the strain's `all`
\* record if it has one, otherwise it fails with the no-config error.
C1_ConfigRule ==
    pc = "get_axis_config returned" =>
        LET code == lower(antibiotic)
            g == IF code \in DOMAIN ANTIBIOTIC_GROUP
                 THEN ANTIBIOTIC_GROUP[code] ELSE "non_beta"
            sc == CONFIG[strain]
        IN  /\ g \in DOMAIN sc => error = "none" /\ cfg = sc[g]
            /\ (g \notin DOMAIN sc /\ "all" \in DOMAIN sc) =>
                   error = "none" /\ cfg = sc["all"]
            /\ (g \notin DOMAIN sc /\ "all" \notin DOMAIN sc) =>
                   error = "ValueError"

\* an upper-case beta-lactam code resolved to the strain's beta record
C1_Witness ==
    /\ pc = "get_axis_config returned"
    /\ strain = "PAO1"
    /\ antibiotic = <<"C","A","Z","_","P">>
    /\ error = "none"
    /\ cfg = CONFIG["PAO1"]["beta"]
    /\ cfg # CONFIG["PAO1"]["non_beta"]

\* C10: with the compiled-in tables get_axis_config never raises for a
\* strain key of CONFIG, whatever the antibiotic string: it returns one
\* record of that strain, because ANTIBIOTIC_GROUP only yields non_beta and
\* beta and every strain has both of those entries or an `all` entry.
C10_NoConfigErrorUnreachable ==
    /\ \A a \in DOMAIN ANTIBIOTIC_GROUP :
           ANTIBIOTIC_GROUP[a] \in {"non_beta", "beta"}
    /\ \A s \in DOMAIN CONFIG :
           \/ {"non_beta", "beta"} \subseteq DOMAIN CONFIG[s]
           \/ "all" \in DOMAIN CONFIG[s]
    /\ pc = "get_axis_config returned" =>
           /\ error = "none"
           /\ \E g \in DOMAIN CONFIG[strain] : cfg = CONFIG[strain][g]

\* an unmapped mixed-case string resolved through the `all` fallback
C10_Witness ==
    /\ pc = "get_axis_config returned"
    /\ strain = "SA"
    /\ antibiotic = <<"X","y","Z">>
    /\ error = "none"
    /\ cfg = CONFIG["SA"]["all"]

-----------------------------------------------------------------------------
(* Properties of get_color (checked under SpecColor).                      *)

\* C2: get_color takes the discrete palette (group1) if and only if
\* z <= z_lim, the threshold itself included; a group1 result is an entry
\* of the 8-entry palette, and a z above the threshold takes the gradient
\* branch, whose result is never a palette entry.
C2_LowIffAtMostThreshold ==
    pc = "get_color returned" =>
        /\ ret.branch = "group1" <=> Leq(z_in, Num(cfg.z_lim))
        /\ ret.branch = "group1" =>
               /\ ret.err = "none"
               /\ ret.color.from = "group1_palette"
               /\ ret.color.at \in 0..7
               /\ ret.color.name = group1_palette[ret.color.at]
        /\ Less(Num(cfg.z_lim), z_in) =>
               /\ ret.branch = "group2"
               /\ ret.color.from # "group1_palette"
               /\ ret.err = "none" => ret.color.from = "cmap2"

\* z equal to the threshold coloured from the palette
C2_Witness ==
    /\ pc = "get_color returned"
    /\ cfg.z_lim = 160
    /\ z_in = Num(160)
    /\ ret.branch = "group1"
    /\ ret.color.from = "group1_palette"

\* i = clamp(floor(x / k), 0, 7), stated without a division
ClampedFloorIs(i, x, k) ==
    \/ i = 0 /\ Less(x, Num(k))
    \/ i \in 1..6 /\ Leq(Num(i * k), x) /\ Less(x, Num((i + 1) * k))
    \/ i = 7 /\ Leq(Num(7 * k), x)

\* C3: for every z <= z_lim the palette index get_color uses is
\* clamp(raw, 0, 7) with raw = floor((z - 12) / bin_size) for mode ab,
\* floor(z / bin_size) for modes sa and pa and 0 for any other mode, so it
\* is always in 0..7 (z = -50 with mode ab, bin_size 10 gives 0, z = 22
\* gives 1).
C3_PaletteIndexClamped ==
    (pc = "get_color returned" /\ Leq(z_in, Num(cfg.z_lim))) =>
        /\ ret.err = "none"
        /\ ret.idx \in 0..7
        /\ ret.color.at = ret.idx
        /\ cfg.index_mode = "ab" =>
               ClampedFloorIs(ret.idx, Sub(z_in, Num(12)), cfg.bin_size)
        /\ cfg.index_mode \in {"sa", "pa"} =>
               ClampedFloorIs(ret.idx, z_in, cfg.bin_size)
        /\ cfg.index_mode \notin {"ab", "sa", "pa"} => ret.idx = 0
        /\ (cfg.index_mode = "ab" /\ cfg.bin_size = 10 /\ z_in = Num(0 - 50)) =>
               ret.idx = 0
        /\ (cfg.index_mode = "ab" /\ cfg.bin_size = 10 /\ z_in = Num(22)) =>
               ret.idx = 1

\* a negative z in mode ab, whose raw index -7 is clamped to 0
C3_Witness ==
    /\ pc = "get_color returned"
    /\ cfg = CONFIG["AB_single"]["non_beta"]
    /\ z_in = Num(0 - 50)
    /\ get_group1_index(z_in, cfg.index_mode, cfg.bin_size) = 0 - 7
    /\ ret.idx = 0
    /\ ret.color.name = "grey"

\* C4: for every record of CONFIG the boundary at the threshold has no
\* gap: z = z_lim gets the last palette entry (index 7), and a z above
\* z_lim with actual_max above z_lim gets a gradient colour whose fraction
\* is (z - z_lim) / (actual_max - z_lim), which is 0 (the first entry of
\* the gradient) at z_lim; neither side raises.
C4_NoGapAtThreshold ==
    (pc = "get_color returned" /\ cfg \in ConfigRecords) =>
        LET thr == Num(cfg.z_lim)
            span == Sub(max_in, thr)
            dist == Sub(z_in, thr)
        IN  /\ Eq(z_in, thr) =>
                   /\ ret.err = "none"
                   /\ ret.branch = "group1"
                   /\ ret.idx = 7
                   /\ ret.color.name = "red"
            /\ (Less(thr, z_in) /\ Less(thr, max_in)) =>
                   /\ ret.err = "none"
                   /\ ret.branch = "group2"
                   /\ ret.color.from = "cmap2"
                   /\ Less(Num(0), ret.norm)
                   /\ ret.norm.n * span.n * dist.d = dist.n * ret.norm.d * span.d
                   /\ Less(z_in, max_in) =>
                          /\ ret.color.name = "lut"
                          /\ ret.color.at * span.n * dist.d
                                 <= LutSize * dist.n * span.d
                          /\ LutSize * dist.n * span.d
                                 < (ret.color.at + 1) * span.n * dist.d
            /\ Less(thr, max_in) =>
                   /\ Normalize(thr, max_in, thr) = [err |-> "none", val |-> Num(0)]
                   /\ cmap(Num(0)).at = 0

\* z half a unit above the threshold, coloured with the first gradient entry
C4_Witness ==
    /\ pc = "get_color returned"
    /\ cfg = CONFIG["PAO1"]["beta"]
    /\ z_in = Frac(321, 2)
    /\ max_in = Num(600)
    /\ ret.branch = "group2"
    /\ ret.norm = Frac(1, 880)
    /\ ret.color = [from |-> "cmap2", at |-> 0, name |-> "lut"]

\* C5: get_color with z > z_lim and actual_max <= z_lim is guarded: it does
\* not raise, and returns a gradient colour whose fraction is clamped into
\* [0, 1], the degenerate domain giving the end-of-gradient colour.
C5_DegenerateDomainGuarded ==
    (/\ pc = "get_color returned"
     /\ Less(Num(cfg.z_lim), z_in)
     /\ Leq(max_in, Num(cfg.z_lim))) =>
        /\ ret.err = "none"
        /\ ret.color.from = "cmap2"
        /\ Leq(Num(0), ret.norm) /\ Leq(ret.norm, Num(1))
        /\ ret.color.at = LutSize - 1

-----------------------------------------------------------------------------
(* Runs of plot_3d_hts(file_path, strain, antibiotic).                     *)

RunStrains == {"AB_single", "SA", "AB"}

RunInit ==
    /\ pc = "plot_3d_hts"
    /\ strain \in RunStrains
    /\ antibiotic = <<"A","m","k">>
    /\ cfg = NoCfg
    /\ error = "none"
    /\ z_in = NaN /\ max_in = NaN /\ ret = NoRet
    /\ NoRun

Next ==
    \/ ResolveConfig
    \/ OpenWorkbook
    \/ ReadSheet
    \/ ConcatFrames
    \/ AvgData
    \/ RawPoints
    \/ AveragePoints
    \/ Lines
    \/ Save

Spec == RunInit /\ [][Next]_vars

-----------------------------------------------------------------------------
(* Properties of the runs (checked under Spec).                            *)

\* the run has ended
Ended == pc \in {"done", "failed"}

\* a sheet that matches a dose-stage pattern but lacks a required column
Malformed(sh) == ShapeGroup(sh.name) # "" /\ ~(Cols \subseteq sh.columns)

\* a row of a matching, well-formed sheet with no missing coordinate
HasUsableRow(sheets) ==
    \E i \in 1..Len(sheets) :
        /\ ShapeGroup(sheets[i].name) # ""
        /\ Cols \subseteq sheets[i].columns
        /\ \E j \in 1..Len(sheets[i].rows) :
               \A c \in Cols : ~sheets[i].rows[j][c].nan

\* C6: whenever no usable row survives parsing and filtering, the run fails
\* with the empty-input error and writes no output, both when no sheet
\* matches a dose-stage pattern and when sheets match but all their rows
\* are dropped.
C6_EmptyInputFails ==
    (/\ Ended
     /\ strain \in DOMAIN CONFIG
     /\ \A i \in 1..Len(workbook) : ~Malformed(workbook[i])
     /\ ~HasUsableRow(workbook)) =>
        /\ pc = "failed"
        /\ error = "ValueError: No objects to concatenate"
        /\ written = 0

\* C7: a sheet that matches a dose-stage pattern but lacks a required
\* column is skipped like a sheet that matches no pattern: no error is
\* raised for it, and the rows of the well-formed sheets are loaded and
\* plotted.
C7_MalformedSheetSkipped ==
    LET good == SelectSeq(workbook, LAMBDA sh : ~Malformed(sh))
    IN  (/\ Ended
         /\ strain \in DOMAIN CONFIG
         /\ \E i \in 1..Len(workbook) : Malformed(workbook[i])
         /\ HasUsableRow(good)) =>
            /\ pc = "done"
            /\ error = "none"
            /\ df_all = load_all_sheets(good).df
            /\ written = 1

\* C8: when strain is no key of CONFIG the run fails at configuration
\* resolution before anything else: the workbook is never opened, no trace
\* is built, no output is written.  A run that writes the output resolved
\* its configuration first, and writes it exactly once, as its last step.
C8_ConfigResolutionFirst ==
    /\ strain \notin DOMAIN CONFIG =>
           /\ opened = 0 /\ workbook = <<>> /\ traces = <<>> /\ written = 0
           /\ pc \in {"plot_3d_hts", "failed"}
           /\ pc = "failed" => error = "KeyError"
    /\ (opened > 0 \/ traces # <<>> \/ written > 0) =>
           /\ strain \in DOMAIN CONFIG
           /\ \E g \in DOMAIN CONFIG[strain] : cfg = CONFIG[strain][g]
    /\ written <= 1
    /\ written = 1 <=> pc = "done"
    /\ pc = "done" => ~ENABLED Next

\* a run with an unknown strain, ended by the KeyError
C8_Witness ==
    /\ strain = "AB"
    /\ pc = "failed"
    /\ error = "KeyError"
    /\ opened = 0
    /\ written = 0

\* v is the maximum of the non-empty sequence zs
IsMaxOf(v, zs) ==
    /\ \E i \in 1..Len(zs) : zs[i] = v
    /\ \A i \in 1..Len(zs) : Leq(zs[i], v)

\* C9: for a non-empty loaded data set, each colouring pass normalizes
\* against the maximum Z of its own points (raw pass: all raw Z values; averaged pass: the per-group means,
\* not the raw maximum).  So every get_color call of a run that takes the
\* gradient branch has z_lim < z <= actual_max: the span is positive, the
\* fraction lies in (0, 1], and the maximum point of the pass maps to 1.
C9_PassMaxima ==
    /\ pc \in {"average points", "lines", "save", "done"} =>
           /\ df_all # <<>> => IsMaxOf(max_z, Column(df_all, "Z value"))
           /\ {c.z : c \in {d \in calls : d.pass = "raw"}}
                  = {df_all[i]["Z value"] : i \in 1..Len(df_all)}
    /\ pc \in {"lines", "save", "done"} =>
           /\ df_all # <<>> =>
                  df_avg # <<>> /\ IsMaxOf(max_avg, Column(df_avg, "Z"))
           /\ {c.z : c \in {d \in calls : d.pass = "avg"}}
                  = {df_avg[i].Z : i \in 1..Len(df_avg)}
    /\ \A c \in calls :
           /\ c.actual_max = IF c.pass = "raw" THEN max_z ELSE max_avg
           /\ c.ret.branch = "group2" =>
                  /\ Less(Num(cfg.z_lim), c.z)
                  /\ Leq(c.z, c.actual_max)
                  /\ Less(Num(0), Sub(c.actual_max, Num(cfg.z_lim)))
                  /\ c.ret.err = "none"
                  /\ Less(Num(0), c.ret.norm)
                  /\ Leq(c.ret.norm, Num(1))
                  /\ \E m \in calls :
                         /\ m.pass = c.pass
                         /\ m.z = c.actual_max
                         /\ m.ret.norm = Num(1)
                         /\ m.ret.color.at = LutSize - 1

\* an averaged point in the gradient branch, normalized against a maximum
\* of the means that is below the raw maximum
C9_Witness ==
    /\ pc = "done"
    /\ Less(max_avg, max_z)
    /\ \E c \in calls :
           /\ c.pass = "avg"
           /\ c.ret.branch = "group2"
           /\ c.actual_max = max_avg
           /\ c.ret.norm = Num(1)
    /\ \E c \in calls :
           /\ c.pass = "raw"
           /\ c.ret.branch = "group2"
           /\ c.actual_max = max_z

====
